---- MODULE Spec2Model ----
(***************************************************************************)
(* God-Telephone: the message aggregation and model-fallback dispatch      *)
(* engine of the chat server.  Two revisions of the server are kept in the *)
(* repository, src/backend/server.js and src/unnamed/part_000; the state   *)
(* variable `revision` says which one runs.  Every event-loop callback     *)
(* (socket handler, provider response with the continuation it resumes,    *)
(* timer) is one action.  Promise continuations that run as microtasks of  *)
(* the same callback are part of that callback's action.  The roster is    *)
(* modelled as far as it gates the message handler (join); disconnects and *)
(* the eviction of idle users touch no other state and are left out.       *)
(***************************************************************************)
EXTENDS Integers, Sequences, FiniteSets, TLC

\* ------------------------------------------------------------ bounds
\* Spec, the scheduler and the compactor under a fallback list of one
\* candidate: the number of inbound "message" events and the last value of
\* the clock (Date.now()).
MaxMsgs == 4
MaxTime == 2
\* SpecDispatch, the dispatcher under the whole fallback list, fed plain
\* messages only: the number of "message" events.
DispatchMsgs == 3
\* SpecLive, the scheduler run to quiescence under fairness: the number of
\* "message" events and the last time at which one may arrive or a provider
\* may still be silent.
LiveMsgs == 3
LiveTime == 1

\* ------------------------------------------------- program constants
\* The source's values (20, 30, 20000 ms, 1 h) scaled down; the two
\* durations are in clock ticks.
MAX_RAW_MESSAGES == 2
SUMMARIZE_AFTER == 3
LLM_INTERVAL_MS == 1
PENALTY_DURATION_MS == 2
\* SpecDispatch's clock runs to one tick past the expiry of a penalty set
\* at time 0.
DispatchTime == PENALTY_DURATION_MS + 1
\* SpecLive's clock runs on until the last cooldown timer the run can set
\* has fired: every dispatch attempt sets one, and there are at most as many
\* attempts as messages.
LiveHorizon == LiveTime + LiveMsgs * LLM_INTERVAL_MS

\* The ordered candidate list (six model ids in the source, three here).
MODEL_PRIORITY_LIST == <<"A", "B", "C">>

\* The two revisions of the server.
Backend == "backend/server.js"
Unnamed == "unnamed/part_000"
Revisions == {Backend, Unnamed}

Sockets == {"s1"}

Plain == <<"h">>

\* Message texts, as character sequences: a command and a plain text.
Texts == {<<"/", "k">>, Plain}

\* What one provider invocation can end in: a completion, an error with
\* status 429, an error whose message mentions "quota" (no 429 status), any
\* other error.
Outcomes == {"ok", "e429", "quota", "other"}

VARIABLES
  revision,             \* which server file runs
  conf,                 \* the environment: fallback list, texts, bounds
  now,                  \* Date.now()
  history,              \* let history = []
  conversationSummary,  \* let conversationSummary = "" (the ids it absorbed)
  users,                \* let users = {}
  pendingMessages,      \* let pendingMessages = []
  llmCooldown,          \* let llmCooldown = false
  unseenMessageCount,   \* let unseenMessageCount = 0
  penalizedModels,      \* let penalizedModels = new Map()
  calls,                \* suspended async calls (awaiting a provider)
  timers,               \* pending setTimeout callbacks (their due times)
  nextId,               \* number of inbound messages so far, plus one
  log,                  \* history variables: what was emitted, sent, batched
  ev                    \* what the last callback did (see NoEv)

vars == <<revision, conf, now, history, conversationSummary, users, pendingMessages,
          llmCooldown, unseenMessageCount, penalizedModels, calls, timers,
          nextId, log, ev>>

\* ----------------------------------------------------------- helpers

Min(a, b) == IF a < b THEN a ELSE b
Max(a, b) == IF a > b THEN a ELSE b

Ids(s) == {s[i].id : i \in 1..Len(s)}
IdSeq(s) == [i \in 1..Len(s) |-> s[i].id]

\* Array.prototype.slice(from, to) with 0 <= from, to <= length.
Slice(s, from, to) == IF to <= from THEN <<>> ELSE SubSeq(s, from + 1, to)

\* history.slice(0, history.length - MAX_RAW_MESSAGES): a negative end
\* counts from the end and is clamped at 0.
SliceOld(h) == Slice(h, 0, Max(Len(h) - MAX_RAW_MESSAGES, 0))

\* history.slice(-MAX_RAW_MESSAGES): the last MAX_RAW_MESSAGES elements.
SliceRecent(h) == Slice(h, Max(Len(h) - MAX_RAW_MESSAGES, 0), Len(h))

\* text.startsWith("/")
StartsWithSlash(text) == Len(text) > 0 /\ text[1] = "/"

\* A faulty removal that empties the map: penalizedModels.clear().
MapDelete_Clear(m, k) == [x \in {} |-> 0]

\* Map.prototype.delete / set
MapDelete(m, k) == [x \in (DOMAIN m) \ {k} |-> m[x]]
MapSet(m, k, v) == [x \in (DOMAIN m) \cup {k} |-> IF x = k THEN v ELSE m[x]]
EmptyMap == [x \in {} |-> 0]

\* ---------------------------------------------------------- messages

NoEntry == -1
NoMsg == [id |-> 0, userID |-> "none", text |-> <<>>]

\* const msg = { userID: socket.id, displayName, text, timestamp }
UserMsg(n, s, text) == [id |-> n, userID |-> s, text |-> text]

\* const llmMsg = { userID: "llm", displayName: "God", text: reply, ... };
\* the reply to the k-th batch is given the id -k.
LlmMsg(k) == [id |-> 0 - k, userID |-> "llm", text |-> <<"r">>]

\* if (text.startsWith("/")) return;
IsCommand(text) == StartsWithSlash(text)

\* Whether a participant's command message is among the messages s.
HoldsCommand(s) ==
  \E i \in 1..Len(s) : s[i].userID # "llm" /\ IsCommand(s[i].text)

\* ------------------------------------------ the state the callbacks share

St == [history |-> history,
       conversationSummary |-> conversationSummary,
       pendingMessages |-> pendingMessages,
       llmCooldown |-> llmCooldown,
       unseenMessageCount |-> unseenMessageCount,
       penalizedModels |-> penalizedModels,
       calls |-> calls,
       timers |-> timers,
       log |-> log,
       ev |-> ev]

Commit(st) ==
  /\ history' = st.history
  /\ conversationSummary' = st.conversationSummary
  /\ pendingMessages' = st.pendingMessages
  /\ llmCooldown' = st.llmCooldown
  /\ unseenMessageCount' = st.unseenMessageCount
  /\ penalizedModels' = st.penalizedModels
  /\ calls' = st.calls
  /\ timers' = st.timers
  /\ log' = st.log
  /\ ev' = st.ev

\* --------------------------------------------------- chatWithFallback

\* A faulty lookup, with the comparison the wrong way round: an entry that
\* has expired hides the candidate, one that has not lets it through.
StillPenalized_Reversed(now0, unlockTime) == now0 > unlockTime

\* if (now < unlockTime) continue;
StillPenalized(now0, unlockTime) == now0 < unlockTime

\* err.status === 429 || err.message.toLowerCase().includes("quota")   (backend)
\* err.status === 429                                                  (unnamed)
IsRateLimit(outcome) ==
  IF revision = Backend THEN outcome \in {"e429", "quota"} ELSE outcome = "e429"

\* The gateway's classes of an invocation's end.
Classify(outcome) ==
  IF outcome = "ok" THEN "ok"
  ELSE IF IsRateLimit(outcome) THEN "RateLimited" ELSE "Fatal"

\* penalizedModels.set(modelId, Date.now() + PENALTY_DURATION_MS)      (backend)
\* penalizedModels.set(modelId, now + PENALTY_DURATION_MS)             (unnamed)
UnlockTime(callNow) ==
  IF revision = Backend THEN now + PENALTY_DURATION_MS
  ELSE callNow + PENALTY_DURATION_MS

\* A non-rate-limit error: `throw err` (backend), `continue` (unnamed).
FatalPropagates == revision = Backend

\* The position the loop goes to after the candidate at position i was
\* rate-limited (or, in unnamed, failed otherwise): `continue`.
AfterFailure(i) == i + 1

\* The for-loop over MODEL_PRIORITY_LIST (conf.list) from position i up to its next
\* await or its end: penalized candidates are skipped, an expired entry of
\* the candidate about to be invoked is deleted.  idx = 0: list exhausted.
\* looks: the lookups made, in order.
RECURSIVE NextCandidate(_, _, _, _)
NextCandidate(i, c, now0, pen) ==
  IF i > Len(conf.list) THEN [idx |-> 0, pen |-> pen, looks |-> <<>>]
  ELSE LET m == conf.list[i]
           has == m \in DOMAIN pen
           skip == has /\ StillPenalized(now0, pen[m])
           look == [call |-> c, now |-> now0, pos |-> i,
                    unlock |-> IF has THEN pen[m] ELSE NoEntry,
                    invoked |-> ~skip]
       IN IF skip
          THEN LET r == NextCandidate(i + 1, c, now0, pen)
               IN [r EXCEPT !.looks = <<look>> \o @]
          ELSE [idx |-> i, pen |-> MapDelete(pen, m), looks |-> <<look>>]

\* The payload reaches a provider: whether it holds a command message, and
\* in which part, is logged.
LogSent(lg, c) ==
  [lg EXCEPT !.prompted = @ \cup (IF c.ctxCmd THEN {"context"} ELSE {})
                            \cup (IF HoldsCommand(c.batch) THEN {"batch"} ELSE {})
                            \cup (IF HoldsCommand(c.old) THEN {"excerpt"} ELSE {})]

\* Run call c's loop from position i.  status "await": suspended in
\* openai.chat.completions.create for candidate idx; "throw": the loop ran
\* off the list (throw new Error(...)).  c.fatal: a candidate of this call
\* failed with an error that is no rate limit and the loop went on.
ChatLoop(st, c, i) ==
  LET r == NextCandidate(i, c.id, c.now, st.penalizedModels)
      c2 == [c EXCEPT !.idx = r.idx]
      others == {d \in st.calls : d.id # c.id}
      st1 == [st EXCEPT !.penalizedModels = r.pen,
                        !.ev.looks = @ \o r.looks]
  IN IF r.idx = 0
     THEN [st |-> [st1 EXCEPT !.calls = others,
                              !.ev.error = "exhausted",
                              !.ev.sawFatal = @ \/ c.fatal],
           status |-> "throw", call |-> c2]
     ELSE [st |-> [st1 EXCEPT !.calls = others \cup {c2},
                              !.log = LogSent(@, c2)],
           status |-> "await", call |-> c2]

\* The awaited invocation of candidate c.idx ends in `outcome`.
ChatResume(st, c, outcome) ==
  LET m == conf.list[c.idx]
      others == {d \in st.calls : d.id # c.id}
  IN IF outcome = "ok"
     THEN [st |-> [st EXCEPT !.calls = others], status |-> "return", call |-> c]
     ELSE IF IsRateLimit(outcome)
     THEN ChatLoop([st EXCEPT
                      !.penalizedModels = MapSet(@, m, UnlockTime(c.now)),
                      !.ev.penalized = c.idx],
                   c, AfterFailure(c.idx))
     ELSE IF FatalPropagates
     THEN [st |-> [st EXCEPT !.calls = others, !.ev.error = "propagated"],
           status |-> "throw", call |-> c]
     ELSE ChatLoop(st, [c EXCEPT !.fatal = TRUE], AfterFailure(c.idx))

\* async function chatWithFallback(payload, taskName): the payload as its
\* caller built it, const now = Date.now().
NewCall(st, task, id, old, msg, batch) ==
  [id |-> id, task |-> task, now |-> now, idx |-> 0,
   old |-> old, msg |-> msg, batch |-> batch,
   master |-> st.conversationSummary, fatal |-> FALSE,
   ctxCmd |-> task = "God Response" /\ HoldsCommand(st.history)]

\* ... and the loop from the top of the list.
chatWithFallback(st, c) == ChatLoop(st, c, 1)

\* ----------------------------------------------------- processLLMQueue

NoCall == [id |-> 0, task |-> "none", now |-> 0, idx |-> 0]
NoCompaction == [done |-> FALSE, ok |-> FALSE, old |-> <<>>, before |-> <<>>,
                 after |-> <<>>, summaryBefore |-> {}, summaryAfter |-> {}]

\* What the last callback did in the dispatcher and the compactor: the chat
\* call it resumed (as it was suspended), the class of the provider's answer
\* and how the call went on, the lookups made in the penalty box and the
\* list position penalized, and the compaction applied; the error a chat
\* call threw ("exhausted": the loop ran off the list, "propagated": throw
\* err) and, for "exhausted", whether a candidate had failed otherwise
\* than by a rate limit in that call.
NoEv ==
  [call |-> NoCall, class |-> "none", status |-> "none", looks |-> <<>>,
   penalized |-> 0, compaction |-> NoCompaction,
   error |-> "none", sawFatal |-> FALSE]

\* A faulty timer, due at once: setTimeout(() => {...}, 0).
SetTimeout_NoDelay(st) ==
  [st EXCEPT !.timers = Append(@, now)]

\* setTimeout(() => {...}, LLM_INTERVAL_MS)
SetTimeout(st) ==
  [st EXCEPT !.timers = Append(@, now + LLM_INTERVAL_MS)]

\* A faulty guard that lets an empty batch through: if (llmCooldown) return;
MayDispatch_EmptyBatch(cooldown, pending) == ~cooldown

\* if (llmCooldown || pendingMessages.length === 0) return;
MayDispatch(cooldown, pending) == ~(cooldown \/ Len(pending) = 0)

\* A faulty scheduler that does not raise the flag.
Cooling_NotRaised(cooldown) == cooldown

\* llmCooldown = true;
Cooling(cooldown) == TRUE

\* const batch = [...pendingMessages];
Snapshot(pending) == pending

\* A faulty snapshot that leaves the queue as it is.
AfterSnapshot_KeepsBatch(pending) == pending

\* pendingMessages = [];
AfterSnapshot(pending) == <<>>

\* The number of inbound messages handled so far (each was broadcast).
Received(lg) == Cardinality({n \in lg.emitted : n > 0})

\* processLLMQueue up to its await, and past it when chatWithFallback
\* throws before awaiting anything (every candidate penalized).
processLLMQueue(st) ==
  IF ~MayDispatch(st.llmCooldown, st.pendingMessages) THEN st
  ELSE LET batch == Snapshot(st.pendingMessages)
           k == Len(st.log.batches) + 1
           st1 == [st EXCEPT
                     !.llmCooldown = Cooling(@),
                     !.pendingMessages = AfterSnapshot(@),
                     !.unseenMessageCount = 0,
                     !.log.batches = Append(@, IdSeq(batch)),
                     !.log.lastAt = now,
                     !.log.lastSeen = Received(st.log)]
           c == NewCall(st1, "God Response", 0 - k, <<>>, NoMsg, batch)
           r == chatWithFallback(st1, c)
       IN IF r.status = "throw" THEN SetTimeout(r.st) ELSE r.st

\* A faulty scheduler that sets the cooldown timer only in the try block,
\* after the reply: a failed attempt leaves llmCooldown raised for good.
GodDone_NoTimerOnFailure(st, c, status) ==
  IF status = "return"
  THEN SetTimeout([st EXCEPT !.history = Append(@, LlmMsg(0 - c.id)),
                             !.log.emitted = @ \cup {c.id}])
  ELSE st

\* processLLMQueue after its await: the reply (try) or nothing (catch),
\* then the cooldown timer.
GodDone(st, c, status) ==
  LET llmMsg == LlmMsg(0 - c.id)
      st1 == IF status = "return"
             THEN [st EXCEPT !.history = Append(@, llmMsg),
                             !.log.emitted = @ \cup {llmMsg.id}]
             ELSE st
  IN SetTimeout(st1)

\* ------------------------------------------ summarizeHistory, compaction

\* What the summarizer returns for the prompt built from the summary it
\* was given (MASTER RECORD) and the messages (NEW UPDATES): a summary that
\* has absorbed both.
Summarized(c) == c.master \cup Ids(c.old)

\* const old = history.slice(0, history.length - MAX_RAW_MESSAGES);
OldOf(h) == SliceOld(h)

\* A faulty trim that keeps one message too many:
\* history.slice(-(MAX_RAW_MESSAGES + 1)).
Trimmed_OneTooMany(h) == Slice(h, Max(Len(h) - MAX_RAW_MESSAGES - 1, 0), Len(h))

\* history = history.slice(-MAX_RAW_MESSAGES), after the await, whatever
\* summarizeHistory returned.
Trimmed(h) == SliceRecent(h)

\* pendingMessages.push(msg)
Enqueue(pending, msg) == Append(pending, msg)

\* The message handler after `await summarizeHistory(old)`:
\* conversationSummary = <result>; history = history.slice(-MAX_RAW);
\* pendingMessages.push(msg); processLLMQueue().  ok = FALSE: the catch
\* branch of summarizeHistory returned conversationSummary as it is now.
Compacted(st, c, ok) ==
  LET result == IF ok THEN Summarized(c) ELSE st.conversationSummary
      st1 == [st EXCEPT
                !.conversationSummary = result,
                !.history = Trimmed(@),
                !.pendingMessages = Enqueue(@, c.msg),
                !.log.enqueued = Append(@, c.msg.id),
                !.log.overRun = 0,
                !.log.overRunPlain = 0,
                !.ev.compaction =
                   [done |-> TRUE, ok |-> ok, old |-> IdSeq(c.old),
                    before |-> IdSeq(st.history),
                    after |-> IdSeq(Trimmed(st.history)),
                    summaryBefore |-> st.conversationSummary,
                    summaryAfter |-> result]]
  IN processLLMQueue(st1)

\* conversationSummary = await summarizeHistory(old);
\* backend: summarizeHistory goes through chatWithFallback; unnamed: it
\* awaits scribeModel.generateContent (Gemini), outside the fallback list.
StartCompaction(st, msg) ==
  LET old == OldOf(st.history)
      st1 == [st EXCEPT !.log.overRun = 0, !.log.overRunPlain = 0]
  IN IF revision = Backend
     THEN LET c == NewCall(st1, "Summarization", msg.id, old, msg, <<>>)
              r == chatWithFallback(st1, c)
          IN IF r.status = "throw" THEN Compacted(r.st, r.call, FALSE) ELSE r.st
     ELSE LET c == NewCall(st1, "Scribe", msg.id, old, msg, <<>>)
          IN [st1 EXCEPT !.calls = @ \cup {c}, !.log = LogSent(@, c)]

\* if (history.length > SUMMARIZE_AFTER)
NeedsCompaction(h) == Len(h) > SUMMARIZE_AFTER

\* Whether the handler goes past `if (text.startsWith("/")) return;`
\* to the compaction check and the enqueue.
PastCommandCheck(text) == ~IsCommand(text)

\* socket.on("message", async ({ text }) => {...}) up to its first await
\* or its end.
OnMessage(st, msg) ==
  LET st1 == [st EXCEPT
                !.history = Append(@, msg),
                !.log.emitted = @ \cup {msg.id},
                !.log.overRun =
                   IF NeedsCompaction(Append(st.history, msg))
                   THEN Min(@ + 1, 2) ELSE 0,
                !.log.overRunPlain =
                   IF ~NeedsCompaction(Append(st.history, msg)) THEN 0
                   ELSE IF IsCommand(msg.text) THEN @ ELSE Min(@ + 1, 2),
                !.unseenMessageCount = @ + 1]
  IN IF ~PastCommandCheck(msg.text) THEN st1
     ELSE IF NeedsCompaction(st1.history) THEN StartCompaction(st1, msg)
     ELSE processLLMQueue([st1 EXCEPT
                             !.pendingMessages = Enqueue(@, msg),
                             !.log.enqueued = Append(@, msg.id)])

\* ------------------------------------------------------------- actions

InitWith(c) ==
  /\ revision \in Revisions
  /\ conf = c
  /\ now = 0
  /\ history = <<>>
  /\ conversationSummary = {}
  /\ users = {}
  /\ pendingMessages = <<>>
  /\ llmCooldown = FALSE
  /\ unseenMessageCount = 0
  /\ penalizedModels = EmptyMap
  /\ calls = {}
  /\ timers = <<>>
  /\ nextId = 1
  /\ log = [batches |-> <<>>, enqueued |-> <<>>, emitted |-> {},
            prompted |-> {}, overRun |-> 0, overRunPlain |-> 0,
            lastAt |-> 0, lastSeen |-> 0]
  /\ ev = NoEv

Init ==
  InitWith([list |-> SubSeq(MODEL_PRIORITY_LIST, 1, 1), texts |-> Texts,
            maxMsgs |-> MaxMsgs, maxTime |-> MaxTime, horizon |-> MaxTime])

InitDispatch ==
  InitWith([list |-> MODEL_PRIORITY_LIST, texts |-> {Plain},
            maxMsgs |-> DispatchMsgs, maxTime |-> DispatchTime,
            horizon |-> DispatchTime])

InitLive ==
  InitWith([list |-> SubSeq(MODEL_PRIORITY_LIST, 1, 1), texts |-> Texts,
            maxMsgs |-> LiveMsgs, maxTime |-> LiveTime,
            horizon |-> LiveHorizon])

\* socket.on("join", ...): users[socket.id] = {...}
Join(s) ==
  /\ users' = users \cup {s}
  /\ ev' = NoEv
  /\ UNCHANGED <<revision, conf, now, history, conversationSummary, pendingMessages,
                 llmCooldown, unseenMessageCount, penalizedModels, calls,
                 timers, nextId, log>>

\* socket.on("message", ...): if (!user) return; then the handler.
Message(s, text) ==
  /\ nextId <= conf.maxMsgs
  /\ text \in conf.texts
  /\ s \in users
  /\ LET msg == UserMsg(nextId, s, text)
     IN Commit(OnMessage([St EXCEPT !.ev = NoEv], msg))
  /\ nextId' = nextId + 1
  /\ UNCHANGED <<revision, conf, now, users>>

\* openai.chat.completions.create settles for a suspended chatWithFallback
\* call; the call runs on, and when it returns or throws, so does its caller.
ProviderResponds(c, outcome) ==
  /\ c \in calls
  /\ c.task \in {"God Response", "Summarization"}
  /\ LET st0 == [St EXCEPT !.ev = [NoEv EXCEPT
                                     !.class = Classify(outcome),
                                     !.call = [id |-> c.id, task |-> c.task,
                                               now |-> c.now, idx |-> c.idx]]]
         r == ChatResume(st0, c, outcome)
         st1 == [r.st EXCEPT !.ev.status = r.status]
     IN Commit(IF r.status = "await" THEN st1
               ELSE IF c.task = "God Response" THEN GodDone(st1, r.call, r.status)
               ELSE Compacted(st1, r.call, r.status = "return"))
  /\ UNCHANGED <<revision, conf, now, users, nextId>>

\* scribeModel.generateContent settles (unnamed revision).
ScribeResponds(c, ok) ==
  /\ c \in calls
  /\ c.task = "Scribe"
  /\ LET st0 == [St EXCEPT !.ev = [NoEv EXCEPT
                                     !.call = [id |-> c.id, task |-> c.task,
                                               now |-> c.now, idx |-> c.idx],
                                     !.status = IF ok THEN "return" ELSE "throw"],
                           !.calls = @ \ {c}]
     IN Commit(Compacted(st0, c, ok))
  /\ UNCHANGED <<revision, conf, now, users, nextId>>

\* A faulty timer whose callback runs without waiting for the delay (as
\* when the callback is called in place instead of being passed).
CooldownTimer_RunAtOnce(i) ==
  /\ i \in 1..Len(timers)
  /\ LET st0 == [St EXCEPT !.ev = NoEv,
                           !.timers = SubSeq(@, 1, i - 1) \o SubSeq(@, i + 1, Len(@)),
                           !.llmCooldown = FALSE]
     IN Commit(processLLMQueue(st0))
  /\ UNCHANGED <<revision, conf, now, users, nextId>>

\* A faulty timer callback that lowers the flag and does not run the queue
\* again.
CooldownTimer_NoRerun(i) ==
  /\ i \in 1..Len(timers)
  /\ timers[i] <= now
  /\ Commit([St EXCEPT !.ev = NoEv,
                       !.timers = SubSeq(@, 1, i - 1) \o SubSeq(@, i + 1, Len(@)),
                       !.llmCooldown = FALSE])
  /\ UNCHANGED <<revision, conf, now, users, nextId>>

\* The setTimeout callback: llmCooldown = false; processLLMQueue();
CooldownTimer(i) ==
  /\ i \in 1..Len(timers)
  /\ timers[i] <= now
  /\ LET st0 == [St EXCEPT !.ev = NoEv,
                           !.timers = SubSeq(@, 1, i - 1) \o SubSeq(@, i + 1, Len(@)),
                           !.llmCooldown = FALSE]
     IN Commit(processLLMQueue(st0))
  /\ UNCHANGED <<revision, conf, now, users, nextId>>

\* Time passes: up to conf.maxTime freely, and up to conf.horizon while a
\* cooldown timer is not yet due.
Tick ==
  /\ \/ now < conf.maxTime
     \/ now < conf.horizon /\ \E i \in 1..Len(timers) : timers[i] > now
  /\ now' = now + 1
  /\ ev' = NoEv
  /\ UNCHANGED <<revision, conf, history, conversationSummary, users, pendingMessages,
                 llmCooldown, unseenMessageCount, penalizedModels, calls,
                 timers, nextId, log>>

Next ==
  \/ \E s \in Sockets : Join(s)
  \/ \E s \in Sockets, text \in Texts : Message(s, text)
  \/ \E c \in calls, outcome \in Outcomes : ProviderResponds(c, outcome)
  \/ \E c \in calls, ok \in BOOLEAN : ScribeResponds(c, ok)
  \/ \E i \in 1..Len(timers) : CooldownTimer(i)
  \/ Tick

Spec == Init /\ [][Next]_vars

SpecDispatch == InitDispatch /\ [][Next]_vars

\* When each callback can run: a chatWithFallback call awaits its provider,
\* a handler awaits the scribe, a timer is due.
CallPending == \E c \in calls : c.task \in {"God Response", "Summarization"}
ScribePending == \E c \in calls : c.task = "Scribe"
TimerDue == \E i \in 1..Len(timers) : timers[i] <= now

\* Every provider call eventually returns or fails, every timer that is due
\* eventually fires, and time passes: weak fairness of the four steps.  For
\* the three callbacks WF_vars(A) is written out as
\* []<>(~ENABLED <<A>>_vars) \/ []<><<A>>_vars with A's enabling condition,
\* the predicate above (each of them changes calls or timers when it runs).
Fairness ==
  /\ \/ []<>(~CallPending)
     \/ []<><<\E c \in calls, outcome \in Outcomes :
                 ProviderResponds(c, outcome)>>_vars
  /\ \/ []<>(~ScribePending)
     \/ []<><<\E c \in calls, ok \in BOOLEAN : ScribeResponds(c, ok)>>_vars
  /\ \/ []<>(~TimerDue)
     \/ []<><<\E i \in 1..Len(timers) : CooldownTimer(i)>>_vars
  /\ WF_vars(Tick)

SpecLive == InitLive /\ [][Next]_vars /\ Fairness

\* ---------------------------------------------------------- the claims

Last(s) == s[Len(s)]

RECURSIVE Flatten(_)
Flatten(ss) == IF ss = <<>> THEN <<>> ELSE Head(ss) \o Flatten(Tail(ss))

NoDuplicates(s) == \A i, j \in 1..Len(s) : s[i] = s[j] => i = j

\* The messages a compaction's trim removed: the prefix of the history
\* before the trim that is no longer there after it.
Removed(cmp) == SubSeq(cmp.before, 1, Len(cmp.before) - Len(cmp.after))

GodCalls == {c \in calls : c.task = "God Response"}
BatchStarted == Len(log.batches') > Len(log.batches)

\* C1: a failed compaction leaves RawHistory and ConversationSummary as they
\* were: when the summarization call of a compaction fails, applying its
\* outcome changes neither the message sequence nor the summary.
C1_FailedCompactionChangesNothing ==
  (ev.compaction.done /\ ~ev.compaction.ok) =>
     /\ ev.compaction.after = ev.compaction.before
     /\ ev.compaction.summaryAfter = ev.compaction.summaryBefore

\* C2: the messages a compaction removes from RawHistory when its trim is
\* applied are exactly the sequence `old` that was passed to the
\* summarization call whose result becomes the summary, for every
\* interleaving (here for the compactions whose call succeeded).
C2_TrimRemovesExactlyOld ==
  (ev.compaction.done /\ ev.compaction.ok) =>
     Removed(ev.compaction) = ev.compaction.old

\* C3: every inbound message, a command included, is broadcast, and no
\* command message is part of a prompt sent to a model: not of the
\* contextual turns, not of a batch, not of a summarization excerpt.
C3_CommandsBroadcastNeverPrompted ==
  /\ \A n \in 1..(nextId - 1) : n \in log.emitted
  /\ log.prompted = {}

\* C4: the batches snapshotted so far, in order, followed by PendingBatch,
\* are exactly the messages enqueued so far in enqueue order, each once; a
\* snapshot takes the whole of PendingBatch and leaves it empty.
C4_BatchesPartitionEnqueued ==
  /\ [](/\ Flatten(log.batches) \o IdSeq(pendingMessages) = log.enqueued
        /\ NoDuplicates(log.enqueued)
        /\ \A c \in GodCalls : IdSeq(c.batch) = log.batches[0 - c.id])
  /\ [][BatchStarted =>
          /\ pendingMessages' = <<>>
          /\ Len(log.batches') = Len(log.batches) + 1
          /\ Last(log.batches') # <<>>
          /\ \E k \in 0..1 :
               /\ Len(log.enqueued') = Len(log.enqueued) + k
               /\ Last(log.batches') =
                    IdSeq(pendingMessages)
                      \o SubSeq(log.enqueued', Len(log.enqueued) + 1,
                                Len(log.enqueued'))]_vars

\* C4's case: a second batch that gathered two messages enqueued while the
\* first dispatch was cooling.
C4_Witness ==
  /\ Len(log.batches) >= 2
  /\ Len(log.batches[2]) >= 2

\* C5: at most one reply dispatch is in flight; from the start of an attempt
\* to the expiry of its cooldown timer the state is Cooling and no other
\* attempt begins; replies enter RawHistory in the order of their calls.
C5_OneDispatchAtATime ==
  /\ Cardinality(GodCalls) + Len(timers) <= 1
  /\ llmCooldown <=> (Cardinality(GodCalls) + Len(timers) = 1)
  /\ \A c \in GodCalls : c.id = 0 - Len(log.batches)
  /\ \A i, j \in 1..Len(history) :
       (i < j /\ history[i].userID = "llm" /\ history[j].userID = "llm")
          => history[i].id > history[j].id
  /\ \A i \in 1..Len(history) :
       history[i].userID = "llm" =>
          /\ 0 - history[i].id <= Len(log.batches)
          /\ GodCalls # {} => 0 - history[i].id < Len(log.batches)

\* C5's case: a dispatch is in flight and a message that arrived meanwhile
\* waits in PendingBatch.
C5_Witness ==
  /\ GodCalls # {}
  /\ Len(pendingMessages) >= 1
  /\ \E i \in 1..Len(history) : history[i].userID = "llm"

\* C6 as stated: messages that arrive within one LLM_INTERVAL of an Idle
\* start (t = 0, 5, 10) produce exactly one dispatch attempt, whose batch
\* holds all three.
C6_BurstSharesOneBatch ==
  (now < LLM_INTERVAL_MS /\ Len(log.enqueued) >= 3) =>
     /\ Len(log.batches) = 1
     /\ log.batches[1] = SubSeq(log.enqueued, 1, 3)

\* C6 amended: from Idle, the first message enqueued is dispatched at once,
\* in a batch of its own; while less than LLM_INTERVAL has passed since that
\* attempt began the state is Cooling and the messages enqueued since wait
\* in PendingBatch; an attempt after the first begins no earlier than
\* LLM_INTERVAL after the attempt before it began.
C6_FirstAloneRestDeferred ==
  /\ [](/\ Len(log.batches) >= 1 => log.batches[1] = <<log.enqueued[1]>>
        /\ (Len(log.batches) >= 1 /\ now < log.lastAt + LLM_INTERVAL_MS)
              => llmCooldown
        /\ (Len(log.batches) = 1 /\ now < log.lastAt + LLM_INTERVAL_MS)
              => IdSeq(pendingMessages) = Tail(log.enqueued))
  /\ [][(BatchStarted /\ Len(log.batches) >= 1)
          => now' >= log.lastAt + LLM_INTERVAL_MS]_vars

\* C6's case: three messages enqueued within the first interval; the first
\* was dispatched alone and the other two wait.
C6_Witness ==
  /\ now < LLM_INTERVAL_MS
  /\ Len(log.enqueued) >= 3
  /\ Len(log.batches) = 1
  /\ Len(pendingMessages) >= 2

\* The lookups of one callback, for C7 and C9.
Looks == ev.looks
LookIdx == 1..Len(Looks)
Unlocked(look) == look.unlock = NoEntry \/ look.unlock <= look.now

\* C7: within one dispatch call the candidates are looked up in list order
\* from the top, each once; a candidate whose entry has unlockTime > now is
\* not invoked, the first candidate without such an entry is; after a
\* rate-limit the call goes on with the next position, never back.
C7_PriorityOrderSkipsPenalized ==
  /\ \A i \in LookIdx :
       /\ Looks[i].invoked <=> Unlocked(Looks[i])
       /\ Looks[i].pos \in 1..Len(conf.list)
       /\ i > 1 /\ Looks[i - 1].call = Looks[i].call
            => Looks[i].pos = Looks[i - 1].pos + 1 /\ ~Looks[i - 1].invoked
       /\ i > 1 /\ Looks[i - 1].call # Looks[i].call => Looks[i].pos = 1
  /\ Looks # <<>> =>
       IF ev.call.id # 0 /\ Looks[1].call = ev.call.id
       THEN Looks[1].pos = ev.call.idx + 1
       ELSE Looks[1].pos = 1
  /\ \A c \in calls : c.task # "Scribe" =>
       /\ c.idx \in 1..Len(conf.list)
       /\ \A i \in LookIdx : Looks[i].call = c.id /\ Looks[i].invoked
            => Looks[i].pos = c.idx
       /\ ev.call.id = c.id => c.idx > ev.call.idx

\* C7's case: A was penalized by an earlier call and is still penalized at
\* this call's time; the call, which therefore began with B, had B
\* rate-limited and went on to C.
C7_Witness ==
  /\ ev.class = "RateLimited"
  /\ ev.call.idx = 2
  /\ ev.status = "await"
  /\ \E c \in calls : c.id = ev.call.id /\ c.idx = 3
  /\ "A" \in DOMAIN penalizedModels
  /\ penalizedModels["A"] > ev.call.now
  /\ penalizedModels["A"] < ev.call.now + PENALTY_DURATION_MS

\* C8: a Fatal failure propagates out of the dispatch call at once: the
\* call invokes no further candidate and penalizes nothing.
C8_FatalPropagatesAtOnce ==
  ev.class = "Fatal" =>
     /\ ev.status = "throw"
     /\ ev.penalized = 0
     /\ \A i \in LookIdx : Looks[i].call # ev.call.id

\* C9: an entry set at time t0 has unlockTime = t0 + PENALTY_DURATION; a
\* call that looks it up at t0 + PENALTY_DURATION - 1 or before skips the
\* model and keeps the entry, a call that looks it up at
\* t0 + PENALTY_DURATION + 1 or after invokes the model and removes the
\* entry.
C9_PenaltyWindow ==
  /\ ev.penalized # 0 =>
       LET m == conf.list[ev.penalized]
       IN m \in DOMAIN penalizedModels
          /\ penalizedModels[m] = now + PENALTY_DURATION_MS
  /\ \A i \in LookIdx :
       LET look == Looks[i]
           m == conf.list[look.pos]
           again == \E j \in LookIdx : j > i /\ Looks[j].pos = look.pos
       IN look.unlock # NoEntry =>
            /\ look.now <= look.unlock - 1 =>
                 /\ ~look.invoked
                 /\ again \/ (m \in DOMAIN penalizedModels
                               /\ penalizedModels[m] = look.unlock)
            /\ look.now >= look.unlock + 1 =>
                 /\ look.invoked
                 /\ m \notin DOMAIN penalizedModels

\* C10 as stated: RawHistory is never left above SUMMARIZE_AFTER by two
\* inbound messages in a row (command or not) without a compaction firing,
\* and right after a successful compaction its length is MAX_RAW_MESSAGES,
\* or what there was if that is less.
C10_NeverTwoMessagesAboveThreshold ==
  /\ log.overRun <= 1
  /\ (ev.compaction.done /\ ev.compaction.ok) =>
        Len(history) = Min(MAX_RAW_MESSAGES, Len(ev.compaction.before))

\* C10 amended: RawHistory is never left above SUMMARIZE_AFTER by two
\* non-command inbound messages in a row without a compaction firing
\* (command messages and replies fire none), and right after a compaction
\* is applied its length is MAX_RAW_MESSAGES, or what there was if that is
\* less.
C10_NeverTwoPlainMessagesAboveThreshold ==
  /\ log.overRunPlain <= 1
  /\ ev.compaction.done =>
        /\ Len(history) = Min(MAX_RAW_MESSAGES, Len(ev.compaction.before))
        /\ IdSeq(history) = ev.compaction.after

\* C10's case: a compaction was applied to a history above the threshold
\* after a command message had left it there.
C10_Witness ==
  /\ ev.compaction.done
  /\ ev.compaction.ok
  /\ Len(ev.compaction.before) > SUMMARIZE_AFTER + 1
  /\ Len(history) = MAX_RAW_MESSAGES

Range1(q) == {q[i] : i \in 1..Len(q)}

\* The inbound messages 1..n have all been enqueued: none is a command.
AllPlainUpTo(n) ==
  \A m \in 1..n : \E i \in 1..Len(log.enqueued) : log.enqueued[i] = m

\* C11: with MAX_RAW = 2 and SUMMARIZE_AFTER = 3, after the non-command
\* messages m1..m4 the compaction that m4 triggers, which passes
\* old = [m1, m2] to the summarizer, leaves RawHistory = [m3, m4].
C11_FourMessagesLeaveLastTwo ==
  (/\ ev.compaction.done
   /\ ev.call.id = 4
   /\ AllPlainUpTo(4)
   /\ ev.compaction.old = <<1, 2>>)
     => ev.compaction.after = <<3, 4>>

\* Whether sequence p is a prefix of sequence s.
IsPrefix(p, s) == Len(p) <= Len(s) /\ SubSeq(s, 1, Len(p)) = p

\* The last callback ended a reply dispatch attempt in failure with the
\* fallback list run through (the last candidate rate-limited).
DispatchExhausted ==
  /\ ev.call.task = "God Response"
  /\ ev.class = "RateLimited"
  /\ ev.status = "throw"

\* C12: when a reply dispatch attempt fails with every candidate exhausted,
\* the state is as if the attempt had not started, but for the cooldown
\* timer: the attempt's batch is back at the head of PendingBatch, the unseen
\* counter counts its messages again, RawHistory and ConversationSummary are
\* untouched and no reply was appended or broadcast.
C12_ExhaustedAttemptReverts ==
  DispatchExhausted =>
     LET k == 0 - ev.call.id
     IN /\ IsPrefix(log.batches[k], IdSeq(pendingMessages))
        /\ unseenMessageCount >= Len(log.batches[k])
        /\ ~ev.compaction.done
        /\ ev.call.id \notin Ids(history)
        /\ ev.call.id \notin log.emitted
        /\ Len(timers) = 1

\* The message handlers suspended in `await summarizeHistory(old)`.
CompactionCalls == {c \in calls : c.task \in {"Summarization", "Scribe"}}

\* The non-command messages received since the most recent dispatch attempt
\* began: they wait in PendingBatch or in a suspended handler.
PlainSinceDispatch ==
  {n \in Ids(pendingMessages) \cup {c.msg.id : c \in CompactionCalls} :
     n > log.lastSeen}

\* C13: the unseen counter is zero when a dispatch attempt begins and is
\* incremented by non-command messages only: it always equals the number of
\* non-command messages received since the most recent attempt began.
C13_UnseenCountsPlainMessages ==
  unseenMessageCount = Cardinality(PlainSinceDispatch)

\* The messages that were put in a batch.
Batched == {n \in 1..(nextId - 1) :
              \E k \in 1..Len(log.batches), i \in 1..LiveMsgs :
                 i <= Len(log.batches[k]) /\ log.batches[k][i] = n}

\* The non-command messages accepted and not yet put in a batch: they wait
\* in a handler suspended in its compaction call, or in PendingBatch.
Waiting == Ids(pendingMessages) \cup {c.msg.id : c \in CompactionCalls}

\* C14: no enqueued message is lost: when provider calls end and timers
\* fire, every non-command message accepted is eventually in the batch of
\* some dispatch attempt, whether earlier attempts succeed or fail.
C14_EveryMessageBatched ==
  \A n \in 1..LiveMsgs : (n \in Waiting) ~> (n \in Batched)

\* C14's case: the first attempt failed, and a message that waited through
\* it and its cooldown went out in a second batch.
C14_Witness ==
  /\ Len(log.batches) >= 2
  /\ (0 - 1) \notin log.emitted
  /\ \E n \in 1..LiveMsgs : n \in Batched /\ n \notin Range1(log.batches[1])

\* Idle, nothing pending, no timer outstanding and no model call in flight.
Quiescent ==
  /\ ~llmCooldown
  /\ pendingMessages = <<>>
  /\ timers = <<>>
  /\ calls = {}

\* C15: the scheduler is never stuck in Cooling and quiesces: an attempt
\* that has ended, in success or failure, has exactly one cooldown timer
\* outstanding; Cooling always leads back to Idle; and once no new message
\* arrives the system reaches, and stays in, Idle with an empty PendingBatch,
\* no timer outstanding and no model call.
C15_CoolingEndsAndQuiesces ==
  /\ []((llmCooldown /\ GodCalls = {}) => Len(timers) = 1)
  /\ [](GodCalls # {} => timers = <<>>)
  /\ (llmCooldown ~> ~llmCooldown)
  /\ <>[]Quiescent

\* C15's case: quiescence after a failed attempt and a second attempt.
C15_Witness ==
  /\ Quiescent
  /\ Len(log.batches) >= 2
  /\ (0 - 1) \notin log.emitted
  /\ nextId > LiveMsgs

\* C16: the cooldown is a minimum interval between attempts: an attempt
\* after the first begins no earlier than LLM_INTERVAL after the one before
\* it began, because the timer is set only when that attempt has ended and
\* is due LLM_INTERVAL after that.
C16_MinimumIntervalBetweenAttempts ==
  /\ [](/\ GodCalls # {} => timers = <<>>
        /\ \A i \in 1..Len(timers) : timers[i] >= log.lastAt + LLM_INTERVAL_MS
        /\ log.lastAt <= now)
  /\ [][BatchStarted =>
          /\ log.lastAt' = now'
          /\ Len(log.batches) >= 1 => now' >= log.lastAt + LLM_INTERVAL_MS]_vars

\* C16's case: a second attempt is in flight; it began later than
\* LLM_INTERVAL after time 0 because the first attempt's call took time.
C16_Witness ==
  /\ Len(log.batches) = 2
  /\ GodCalls # {}
  /\ log.lastAt > LLM_INTERVAL_MS

\* For C17: how the entry of model m changed in a step, and what the
\* callback of that step did to m.
EntryChanged(m) ==
  \/ (m \in DOMAIN penalizedModels) # (m \in DOMAIN penalizedModels')
  \/ /\ m \in DOMAIN penalizedModels
     /\ m \in DOMAIN penalizedModels'
     /\ penalizedModels[m] # penalizedModels'[m]
RateLimitedNow(m) ==
  /\ ev'.class = "RateLimited"
  /\ ev'.penalized # 0
  /\ conf.list[ev'.penalized] = m
ExpiredLookup(m) ==
  \E i \in 1..Len(ev'.looks) :
     /\ conf.list[ev'.looks[i].pos] = m
     /\ ev'.looks[i].invoked
     /\ ev'.looks[i].unlock # NoEntry
     /\ ev'.looks[i].unlock <= ev'.looks[i].now

\* C17: a dispatch call changes the PenaltyBox in two ways only: it sets the
\* entry of the candidate that was rate-limited in it, and it removes the
\* entry of a candidate it examines whose unlockTime has passed.  A success
\* leaves every unexpired entry as it is, and a candidate is skipped only on
\* account of its own entry.
C17_PenaltyBoxFrame ==
  /\ [][\A m \in Range1(conf.list) :
          /\ EntryChanged(m) =>
               \/ m \in DOMAIN penalizedModels' /\ RateLimitedNow(m)
               \/ m \notin DOMAIN penalizedModels' /\ ExpiredLookup(m)
          /\ (/\ ev'.class = "ok"
              /\ m \in DOMAIN penalizedModels
              /\ penalizedModels[m] > now)
               => /\ m \in DOMAIN penalizedModels'
                  /\ penalizedModels'[m] = penalizedModels[m]]_vars
  /\ [](\A i \in LookIdx : ~Looks[i].invoked => Looks[i].unlock > Looks[i].now)

\* C17's case: B succeeded while A's penalty, set earlier, has not expired,
\* and A's entry is still there.
C17_Witness ==
  /\ ev.class = "ok"
  /\ ev.call.idx = 2
  /\ "A" \in DOMAIN penalizedModels
  /\ penalizedModels["A"] > now
  /\ penalizedModels["A"] < ev.call.now + PENALTY_DURATION_MS

\* C18: a dispatch call fails with AllModelsExhausted only when every
\* candidate was, in that call, skipped as penalized or invoked and
\* rate-limited (none failed otherwise); and a candidate that succeeds ends
\* the call with its result.
C18_ExhaustedOnlyByPenaltiesAndRateLimits ==
  /\ ev.error = "exhausted" => ~ev.sawFatal
  /\ ev.class = "ok" =>
        /\ ev.status = "return"
        /\ \A i \in LookIdx : Looks[i].call # ev.call.id

\* C19: non-command messages enter PendingBatch, and so the batches, in the
\* order in which they were received (ids are given in order of receipt),
\* for every interleaving of the handlers suspended in a compaction call.
C19_EnqueuedInArrivalOrder ==
  \A i, j \in 1..Len(log.enqueued) :
     i < j => log.enqueued[i] < log.enqueued[j]

\* C20: between callbacks, Idle implies that PendingBatch is empty: a
\* message waits in PendingBatch only while the state is Cooling, that is
\* while a reply dispatch is in flight or its cooldown timer is pending.
C20_IdleMeansNothingPending ==
  /\ ~llmCooldown => pendingMessages = <<>>
  /\ pendingMessages # <<>> =>
        /\ llmCooldown
        /\ GodCalls # {} \/ timers # <<>>

\* C20's case: a message waits in PendingBatch while the cooldown timer of
\* an attempt that has ended is pending.
C20_Witness ==
  /\ pendingMessages # <<>>
  /\ timers # <<>>
  /\ GodCalls = {}
  /\ llmCooldown

====
